---- MODULE Spec2Model ----
(***************************************************************************)
(* A model of examples/pubsub_client_2wtls.py: the command line script,    *)
(* the PubsubClient session-start lifecycle (roster, presence, one action, *)
(* disconnect) and its twelve pub/sub handlers.                            *)
(*                                                                         *)
(* Python strings are sequences of tokens; an optional string is a record  *)
(* [isNone, s] so that None and '' are different values.                   *)
(***************************************************************************)
EXTENDS Integers, Sequences, FiniteSets

\* ------------------------------------------------------------------ bounds

\* Longest data string (in tokens) given on the command line or to __init__.
MaxLen == 4

\* Most items a successful disco-items / get-item response carries.
MaxItems == 2

\* ------------------------------------------------------------ Python values

None == [isNone |-> TRUE, s |-> <<>>]

Str(s) == [isNone |-> FALSE, s |-> s]

\* bool(v) of an optional string: None and '' are falsy.
Truthy(v) == ~v.isNone /\ Len(v.s) > 0

SeqsUpTo(S, n) == UNION {[1..k -> S] : k \in 0..n}

Range(q) == {q[i] : i \in 1..Len(q)}

\* Tokens of a data string: a character, the separator, and the two tags of
\* an XML document.
Chars == {"a", ",", "<t>", "</t>"}

DataValues == {None} \cup {Str(s) : s \in SeqsUpTo(Chars, MaxLen)}

NodeValues == {None, Str(<<"n1">>)}

Server == Str(<<"pubsub.example">>)

\* self.boundjid.bare
BoundJid == Str(<<"me@example">>)

\* ---------------------------------------------------------------- str.split

RECURSIVE split(_)
\* s.split(","): the pieces of s between the separators, in order; a string
\* without separator (the empty one included) is its own single piece.
split(s) ==
    IF \E i \in 1..Len(s) : s[i] = ","
    THEN LET i == CHOOSE k \in 1..Len(s) :
                      s[k] = "," /\ \A j \in 1..(k - 1) : s[j] # ","
         IN  <<SubSeq(s, 1, i - 1)>> \o split(SubSeq(s, i + 1, Len(s)))
    ELSE <<s>>

\* ------------------------------------------------------------ ET.fromstring

\* An element tree node: an element with children, or a text character.
Elem(tag, kids) == [kind |-> "elem", v |-> tag, kids |-> kids]

Text(c) == [kind |-> "text", v |-> c, kids |-> <<>>]

NoPayload == [kind |-> "none", v |-> "", kids |-> <<>>]

OpenTags == {"<t>", "<test xmlns='test'>"}

CloseTags == {"</t>", "</test>"}

TagOf(tok) ==
    CASE tok \in {"<t>", "</t>"} -> "t"
      [] tok \in {"<test xmlns='test'>", "</test>"} -> "{test}test"
      [] OTHER -> ""

\* The parser's state while reading: the stack of open elements (tag and the
\* children read so far), the finished root, and whether the input is
\* still well formed.
ParseStart == [stack |-> <<>>, root |-> NoPayload, ok |-> TRUE]

ParseStep(st, tok) ==
    LET depth == Len(st.stack) IN
    IF ~st.ok THEN st
    ELSE IF tok \in OpenTags
    THEN IF depth = 0 /\ st.root.kind # "none"
         THEN [st EXCEPT !.ok = FALSE]          \* junk after document element
         ELSE [st EXCEPT !.stack = Append(@, Elem(TagOf(tok), <<>>))]
    ELSE IF tok \in CloseTags
    THEN IF depth = 0 \/ (depth > 0 /\ st.stack[depth].v # TagOf(tok))
         THEN [st EXCEPT !.ok = FALSE]          \* mismatched tag
         ELSE LET done == st.stack[depth]
                  rest == SubSeq(st.stack, 1, depth - 1)
              IN  IF depth = 1
                  THEN [st EXCEPT !.stack = rest, !.root = done]
                  ELSE [st EXCEPT !.stack =
                           [rest EXCEPT ![depth - 1].kids = Append(@, done)]]
    ELSE IF depth = 0
         THEN [st EXCEPT !.ok = FALSE]          \* text outside the root
         ELSE [st EXCEPT !.stack[depth].kids = Append(@, Text(tok))]

RECURSIVE ParseFrom(_, _, _)
ParseFrom(st, s, i) ==
    IF i > Len(s) THEN st ELSE ParseFrom(ParseStep(st, s[i]), s, i + 1)

\* ET.fromstring(s): [ok, root]; ok = FALSE stands for ParseError.
fromstring(s) ==
    LET st == ParseFrom(ParseStart, s, 1)
        ok == st.ok /\ Len(st.stack) = 0 /\ st.root.kind # "none"
    IN  [ok |-> ok, root |-> IF ok THEN st.root ELSE NoPayload]

\* The document publish sends when no data is given.
PlaceholderText == <<"<test xmlns='test'>", "hello world", "</test>">>

\* ------------------------------------------------------------------ logging

\* The number of %s conversions of a format string (given in pieces).
NumPlaceholders(fmt) == Cardinality({i \in 1..Len(fmt) : fmt[i] = "%s"})

\* logging.<level>(fmt, *args) on source line lineno (the configured format
\* prints it): the line the handler writes.  With no args
\* the message is written as it is; otherwise fmt % args must consume every
\* argument, or formatting fails and no message line is written (the logging
\* module reports the failure on stderr instead).
LogLine(lineno, level, fmt, args, exc_info) ==
    [lineno   |-> lineno,
     level    |-> level,
     fmt      |-> fmt,
     args     |-> args,
     exc_info |-> exc_info,
     ok       |-> Len(args) = 0 \/ NumPlaceholders(fmt) = Len(args)]

Info(lineno, fmt, args) == LogLine(lineno, "INFO", fmt, args, "")

Error(lineno, fmt, args) == LogLine(lineno, "ERROR", fmt, args, "")

Critical(lineno, fmt, args) == LogLine(lineno, "CRITICAL", fmt, args, "")

\* An f-string: every value is interpolated in place.
FString(pieces, args) ==
    [p \in 1..(Len(pieces) + Len(args)) |->
        IF p <= Len(pieces) THEN pieces[p] ELSE "%s"]

\* ---------------------------------------------------------------- the state

VARIABLES
    is_main,        \* the file runs as a script (__name__ == '__main__')
    args,           \* the command line / the arguments given to __init__
    fs,             \* what the certificate checks found on disk
    action,         \* self.action
    node,           \* self.node
    data,           \* self.data
    pubsub_server,  \* self.pubsub_server
    actions,        \* self.actions
    pc,             \* where the program is
    conn,           \* the session's connection state
    calls,          \* the calls made on the transport session, in order
    inflight,       \* the requests (indices of calls) awaiting their response
    resp,           \* the response the awaiting coroutine was woken with
    log,            \* the log lines written, in order
    exc,            \* the exception being propagated or last caught
    outcome         \* how the awaited dispatch (line 42) ended

vars == <<is_main, args, fs, action, node, data, pubsub_server, actions,
          pc, conn, calls, inflight, resp, log, exc, outcome>>

env == <<is_main, args, fs>>

self == <<action, node, data, pubsub_server, actions>>

\* The twelve handlers PubsubClient defines (lines 47-140).
HandlerNames ==
    {"nodes", "create", "delete", "get_configure", "publish", "get",
     "retract", "purge", "subscribe", "unsubscribe", "get_affiliation",
     "add_owner"}

\* The parser's list with a misspelt name: get_affiliations is no method
\* of the client.
choices_misspelt ==
    <<"nodes", "create", "delete", "get_configure", "purge", "subscribe",
      "unsubscribe", "publish", "retract", "get">>
    \o <<"add_owner">> \o <<"get_affiliations">>

\* parser.add_argument("action", choices=choices)
choices ==
    <<"nodes", "create", "delete", "get_configure", "purge", "subscribe",
      "unsubscribe", "publish", "retract", "get">>
    \o <<"add_owner">> \o <<"get_affiliation">>

\* Attributes of the client that are callable but are no pub/sub handler
\* (inherited from ClientXMPP), and a name the client does not have.
OtherMethods == {"disconnect"}

ActionNames == HandlerNames \cup OtherMethods \cup {"bogus"}

NoResp == [kind |-> "none", cond |-> "", items |-> <<>>]

\* The conditions of the faults a request can be answered with (an error
\* stanza, or no answer before the transport's timeout).
FaultConds == {"conflict", "remote-server-timeout"}

ItemIds == {"i1", "i2"}

NotChecked == [checked |-> FALSE, dir |-> FALSE, ca |-> FALSE,
               cert |-> FALSE, key |-> FALSE]

\* A call on the transport session.
Call(op) ==
    [op |-> op, jid |-> None, node |-> None, payload |-> NoPayload,
     item |-> None, affiliations |-> <<>>]

\* A pub/sub request of self['xep_0060'], addressed to pubsub_server and node.
Req(op) == [Call(op) EXCEPT !.jid = pubsub_server, !.node = node]

LifecycleOps == {"connect", "get_roster", "send_presence", "disconnect"}

Init ==
    /\ is_main \in BOOLEAN
    /\ args \in [server : {Server}, action : ActionNames,
                 node : NodeValues, data : DataValues]
    \* On the command line data is the positional after node.
    /\ is_main => (args.node.isNone => args.data.isNone)
    /\ fs = NotChecked
    /\ action = ""
    /\ node = None
    /\ data = None
    /\ pubsub_server = None
    /\ actions = <<>>
    /\ pc = IF is_main THEN "parse_args" ELSE "construct"
    /\ conn = "disconnected"
    /\ calls = <<>>
    /\ inflight = {}
    /\ resp = NoResp
    /\ log = <<>>
    /\ exc = ""
    /\ outcome = "none"

\* --------------------------------------------------------------- the script

\* args = parser.parse_args(): an action outside choices ends the process.
parse_args ==
    /\ pc = "parse_args"
    /\ pc' = IF args.action \in Range(choices) THEN "construct" ELSE "exit"
    /\ UNCHANGED <<env, self, conn, calls, inflight, resp, log, exc, outcome>>

\* PubsubClient.__init__
PubsubClient_init ==
    /\ pc = "construct"
    /\ actions' = <<"nodes", "create", "delete", "get_configure",
                    "publish", "get", "retract",
                    "purge", "subscribe", "unsubscribe">>
                  \o <<"add_owner">> \o <<"get_affiliation">>
    /\ action' = args.action
    /\ node' = args.node
    /\ data' = args.data
    /\ pubsub_server' = args.server
    /\ pc' = IF is_main THEN "certs" ELSE "connect"
    /\ UNCHANGED <<env, conn, calls, inflight, resp, log, exc, outcome>>

CaCerts == Str(<<"certs//server_ca.pem">>)

CertFile == Str(<<"certs//client.pem">>)

Cwd == Str(<<"cwd">>)

\* The lines the certificate checks log for what is on disk.
CertLog(f) ==
    IF ~f.dir
    THEN <<Critical(207, <<"Certificate Directory not found at ", "%s">>, <<Cwd>>)>>
    ELSE IF ~f.ca
    THEN <<Critical(200, <<"CA Certificate not found at ", "%s">>, <<CaCerts>>)>>
    ELSE (IF f.cert THEN <<>>
          ELSE <<Error(203, <<"Client Certificate not found at ", "%s">>,
                       <<CertFile>>)>>)
         \o
         (IF f.key THEN <<>>
          ELSE <<Error(205, <<"Client Key not found at ", "%s">>, <<CaCerts>>)>>)

\* The checks with the exit() after the missing CA certificate left out.
certs_ca_not_fatal ==
    /\ pc = "certs"
    /\ \E d, ca, cert, key \in BOOLEAN :
         /\ fs' = [checked |-> TRUE, dir |-> d, ca |-> ca,
                   cert |-> cert, key |-> key]
         /\ log' = log \o CertLog(fs')
         /\ pc' = IF d THEN "connect" ELSE "exit"
    /\ UNCHANGED <<is_main, args, self, conn, calls, inflight, resp, exc,
                   outcome>>

\* The certificate checks of the script: exit() without the directory or
\* the CA certificate.
certs ==
    /\ pc = "certs"
    /\ \E d, ca, cert, key \in BOOLEAN :
         /\ fs' = [checked |-> TRUE, dir |-> d, ca |-> ca,
                   cert |-> cert, key |-> key]
         /\ log' = log \o CertLog(fs')
         /\ pc' = IF d /\ ca THEN "connect" ELSE "exit"
    /\ UNCHANGED <<is_main, args, self, conn, calls, inflight, resp, exc,
                   outcome>>

\* xmpp.connect()
connect ==
    /\ pc = "connect"
    /\ calls' = Append(calls, Call("connect"))
    /\ conn' = "connecting"
    /\ pc' = "process"
    /\ UNCHANGED <<env, self, inflight, resp, log, exc, outcome>>

\* -------------------------------------------------- the transport session

\* xmpp.process(forever=False): the stream is negotiated and the session
\* established (the session_start event runs start), or connecting fails.
session_start ==
    /\ pc = "process"
    /\ conn = "connecting"
    /\ conn' = "authenticated"
    /\ pc' = "start"
    /\ UNCHANGED <<env, self, calls, inflight, resp, log, exc, outcome>>

connection_failed ==
    /\ pc = "process"
    /\ conn = "connecting"
    /\ conn' = "closed"
    /\ pc' = "done"
    /\ UNCHANGED <<env, self, calls, inflight, resp, log, exc, outcome>>

\* What a request can be answered with: a result (carrying items for the
\* two listing requests) or a fault.
Replies(op) ==
    {[kind |-> "result", cond |-> "", items |-> q] :
        q \in IF op \in {"get_nodes", "get_item"}
              THEN SeqsUpTo(ItemIds, MaxItems)
              ELSE IF op = "publish" THEN {<<id>> : id \in ItemIds}
              ELSE {<<>>}}
    \cup {[kind |-> "error", cond |-> c, items |-> <<>>] : c \in FaultConds}

\* The answer to the request in flight arrives and wakes the coroutine
\* awaiting it.
reply ==
    /\ pc \in {"roster_wait", "await"}
    /\ resp = NoResp
    /\ \E i \in inflight :
         /\ inflight' = inflight \ {i}
         /\ resp' \in Replies(calls[i].op)
    /\ UNCHANGED <<env, self, pc, conn, calls, log, exc, outcome>>

\* The stream is over: after disconnect(), or closed by the peer while the
\* client sits idle after start ended with an exception.
session_end ==
    /\ pc \in {"closing", "start_raised"}
    /\ conn' = "closed"
    /\ pc' = "done"
    /\ UNCHANGED <<env, self, calls, inflight, resp, log, exc, outcome>>

\* ------------------------------------------------------ PubsubClient.start

\* self.get_roster() without the await: start goes on to send presence while
\* the roster request is still unanswered.
start_get_roster_not_awaited ==
    /\ pc = "start"
    /\ calls' = calls \o <<Call("get_roster"), Call("send_presence")>>
    /\ inflight' = inflight \cup {Len(calls) + 1}
    /\ conn' = "active"
    /\ pc' = "dispatch"
    /\ UNCHANGED <<env, self, resp, log, exc, outcome>>

\* await self.get_roster(): the request is sent and start is suspended.
start_get_roster ==
    /\ pc = "start"
    /\ calls' = Append(calls, Call("get_roster"))
    /\ inflight' = inflight \cup {Len(calls) + 1}
    /\ pc' = "roster_wait"
    /\ UNCHANGED <<env, self, conn, resp, log, exc, outcome>>

\* The roster request faulted: the await on line 38 raises, outside the
\* try block, and start ends with that exception.
start_roster_raised ==
    /\ pc = "roster_wait"
    /\ resp.kind = "error"
    /\ exc' = "XMPPError"
    /\ resp' = NoResp
    /\ pc' = "start_raised"
    /\ UNCHANGED <<env, self, conn, calls, inflight, log, outcome>>

\* The roster arrived: self.send_presence()
start_send_presence ==
    /\ pc = "roster_wait"
    /\ resp.kind = "result"
    /\ calls' = Append(calls, Call("send_presence"))
    /\ conn' = "active"
    /\ resp' = NoResp
    /\ pc' = "dispatch"
    /\ UNCHANGED <<env, self, inflight, log, exc, outcome>>

\* getattr(self, self.action)(): what the name resolves to on the client.
Resolve(name) ==
    IF name \in HandlerNames THEN "handler"
    ELSE IF name \in OtherMethods THEN "method"
    ELSE "AttributeError"

\* await getattr(self, self.action)(): a handler is entered; another method
\* of the client is called all the same (here disconnect, whose return
\* value may or may not be awaitable); a missing name raises.
start_dispatch ==
    /\ pc = "dispatch"
    /\ \/ /\ Resolve(action) = "handler"
          /\ pc' = action
          /\ UNCHANGED <<conn, calls, exc, outcome>>
       \/ /\ Resolve(action) = "method"
          /\ calls' = Append(calls, Call(action))
          /\ conn' = "closing"
          /\ \/ /\ pc' = "except"
                /\ exc' = "TypeError"
                /\ outcome' = "raised"
             \/ /\ pc' = "disconnect"
                /\ outcome' = "returned"
                /\ UNCHANGED exc
       \/ /\ Resolve(action) = "AttributeError"
          /\ pc' = "except"
          /\ exc' = "AttributeError"
          /\ outcome' = "raised"
          /\ UNCHANGED <<conn, calls>>
    /\ UNCHANGED <<env, self, inflight, resp, log>>

\* The except clause ending in a bare raise: the exception is logged and
\* leaves start.
start_except_reraise ==
    /\ pc = "except"
    /\ log' = Append(log, LogLine(44, "ERROR", <<"Could not execute ", "%s", ":">>,
                                  <<Str(<<action>>)>>, exc))
    /\ pc' = "start_raised"
    /\ UNCHANGED <<env, self, conn, calls, inflight, resp, exc, outcome>>

\* except: logging.exception('Could not execute %s:', self.action)
start_except ==
    /\ pc = "except"
    /\ log' = Append(log, LogLine(44, "ERROR", <<"Could not execute ", "%s", ":">>,
                                  <<Str(<<action>>)>>, exc))
    /\ pc' = "disconnect"
    /\ UNCHANGED <<env, self, conn, calls, inflight, resp, exc, outcome>>

\* disconnect followed by a second pass: start begins again after its first
\* disconnect.
start_disconnect_rerun ==
    /\ pc = "disconnect"
    /\ calls' = Append(calls, Call("disconnect"))
    /\ conn' = "closing"
    /\ pc' = IF \E i \in 1..Len(calls) : calls[i].op = "disconnect"
             THEN "closing" ELSE "start"
    /\ UNCHANGED <<env, self, inflight, resp, log, exc, outcome>>

\* self.disconnect()
start_disconnect ==
    /\ pc = "disconnect"
    /\ calls' = Append(calls, Call("disconnect"))
    /\ conn' = "closing"
    /\ pc' = "closing"
    /\ UNCHANGED <<env, self, inflight, resp, log, exc, outcome>>

start ==
    \/ start_get_roster
    \/ start_roster_raised
    \/ start_send_presence
    \/ start_dispatch
    \/ start_except
    \/ start_disconnect

\* ------------------------------------------------------------ the handlers

\* error.format() of the fault a request was answered with.
ErrorFormat(r) == Str(<<r.cond>>)

\* The request sent without the await: the handler returns at once with its
\* request still unanswered.
Submit_not_awaited(req) ==
    /\ calls' = Append(calls, req)
    /\ inflight' = inflight \cup {Len(calls) + 1}
    /\ outcome' = "returned"
    /\ pc' = "disconnect"
    /\ UNCHANGED <<env, self, conn, resp, log, exc>>

\* await self['xep_0060'].<op>(...): the request is sent and the handler is
\* suspended until its answer arrives.
Submit(req) ==
    /\ calls' = Append(calls, req)
    /\ inflight' = inflight \cup {Len(calls) + 1}
    /\ pc' = "await"
    /\ UNCHANGED <<env, self, conn, resp, log, exc, outcome>>

\* An exception leaves the handler.
Raise(e) ==
    /\ exc' = e
    /\ outcome' = "raised"
    /\ pc' = "except"
    /\ UNCHANGED <<env, self, conn, calls, inflight, resp, log>>

\* The failure line logged in a finally clause instead of the except
\* clause: it is written after the success lines too.
Resume_finally(name, success, failure) ==
    /\ pc = "await"
    /\ action = name
    /\ resp.kind # "none"
    /\ log' = log \o (IF resp.kind = "result" THEN success ELSE <<>>)
                  \o <<failure>>
    /\ outcome' = "returned"
    /\ pc' = "disconnect"
    /\ UNCHANGED <<env, self, conn, calls, inflight, resp, exc>>

\* The awaited answer is there: the try block goes on and logs the success
\* lines, or the except XMPPError clause logs the failure line; the handler
\* returns.
Resume(name, success, failure) ==
    /\ pc = "await"
    /\ action = name
    /\ resp.kind # "none"
    /\ log' = log \o (IF resp.kind = "result" THEN success ELSE <<failure>>)
    /\ outcome' = "returned"
    /\ pc' = "disconnect"
    /\ UNCHANGED <<env, self, conn, calls, inflight, resp, exc>>

ItemStr(id) == Str(<<id>>)

\* tostring(item['payload'])
PayloadStr(id) == Str(<<"payload of", id>>)

\* nodes leaving its loop after the first item: only that item is logged.
nodes_first_item_only ==
    \/ /\ pc = "nodes"
       /\ Submit(Req("get_nodes"))
    \/ Resume("nodes",
              [i \in 1..(IF Len(resp.items) > 0 THEN 1 ELSE 0) |->
                  Info(51, <<"  - ", "%s">>, <<ItemStr(resp.items[i])>>)],
              Error(53, <<"Could not retrieve node list: ", "%s">>,
                    <<ErrorFormat(resp)>>))

nodes ==
    \/ /\ pc = "nodes"
       /\ Submit(Req("get_nodes"))
    \/ Resume("nodes",
              [i \in 1..Len(resp.items) |->
                  Info(51, <<"  - ", "%s">>, <<ItemStr(resp.items[i])>>)],
              Error(53, <<"Could not retrieve node list: ", "%s">>,
                    <<ErrorFormat(resp)>>))

create ==
    \/ /\ pc = "create"
       /\ Submit(Req("create_node"))
    \/ Resume("create",
              <<Info(58, <<"Created node ", "%s">>, <<node>>)>>,
              Error(60, <<"Could not create node ", "%s", ": ", "%s">>,
                    <<node, ErrorFormat(resp)>>))

delete ==
    \/ /\ pc = "delete"
       /\ Submit(Req("delete_node"))
    \/ Resume("delete",
              <<Info(65, <<"Deleted node ", "%s">>, <<node>>)>>,
              Error(67, <<"Could not delete node ", "%s", ": ", "%s">>,
                    <<node, ErrorFormat(resp)>>))

get_configure ==
    \/ /\ pc = "get_configure"
       /\ Submit(Req("get_node_config"))
    \/ Resume("get_configure",
              <<Info(72, <<"Configure form received from node ", "%s", ": ", "%s">>,
                     <<node, Str(<<"form">>)>>)>>,
              Error(74, <<"Could not retrieve configure form from node ", "%s",
                      ": ", "%s">>,
                    <<node, ErrorFormat(resp)>>))

\* The test of data written as "is not None": the empty string is parsed.
PublishPayload_is_not_None(d) ==
    IF ~d.isNone THEN fromstring(d.s) ELSE fromstring(PlaceholderText)

\* The payload publish sends: the parsed data, or the parsed placeholder
\* when data is falsy.
PublishPayload(d) ==
    IF Truthy(d) THEN fromstring(d.s) ELSE fromstring(PlaceholderText)

publish ==
    \/ /\ pc = "publish"
       /\ IF PublishPayload(data).ok
          THEN Submit([Req("publish") EXCEPT
                          !.payload = PublishPayload(data).root])
          ELSE Raise("ParseError")
    \/ Resume("publish",
              <<Info(84, <<"Published at item id: ", "%s">>,
                     <<ItemStr(resp.items[1])>>)>>,
              Error(86, <<"Could not publish to ", "%s", ": ", "%s">>,
                    <<node, ErrorFormat(resp)>>))

\* get asking for all items when data is falsy: '' is replaced by None.
get_empty_as_None ==
    \/ /\ pc = "get"
       /\ Submit([Req("get_item") EXCEPT
                     !.item = IF Truthy(data) THEN data ELSE None])
    \/ Resume("get",
              [i \in 1..Len(resp.items) |->
                  Info(92, <<"Retrieved item ", "%s", ": ", "%s">>,
                       <<ItemStr(resp.items[i]), PayloadStr(resp.items[i])>>)],
              Error(94, <<"Could not retrieve item ", "%s", " from node ", "%s",
                      ": ", "%s">>,
                    <<data, node, ErrorFormat(resp)>>))

get ==
    \/ /\ pc = "get"
       /\ Submit([Req("get_item") EXCEPT !.item = data])
    \/ Resume("get",
              [i \in 1..Len(resp.items) |->
                  Info(92, <<"Retrieved item ", "%s", ": ", "%s">>,
                       <<ItemStr(resp.items[i]), PayloadStr(resp.items[i])>>)],
              Error(94, <<"Could not retrieve item ", "%s", " from node ", "%s",
                      ": ", "%s">>,
                    <<data, node, ErrorFormat(resp)>>))

retract ==
    \/ /\ pc = "retract"
       /\ Submit([Req("retract") EXCEPT !.item = data])
    \/ Resume("retract",
              <<Info(99, <<"Retracted item ", "%s", " from node ", "%s">>,
                     <<data, node>>)>>,
              Error(101, <<"Could not retract item ", "%s", " from node ", "%s",
                      ": ", "%s">>,
                    <<data, node, ErrorFormat(resp)>>))

purge ==
    \/ /\ pc = "purge"
       /\ Submit(Req("purge"))
    \/ Resume("purge",
              <<Info(106, <<"Purged all items from node ", "%s">>, <<node>>)>>,
              Error(108, <<"Could not purge items from node ", "%s", ": ", "%s">>,
                    <<node, ErrorFormat(resp)>>))

subscribe ==
    \/ /\ pc = "subscribe"
       /\ Submit(Req("subscribe"))
    \/ Resume("subscribe",
              <<Info(114, <<"Subscribed ", "%s", " to node ", "%s">>,
                     <<BoundJid, node>>)>>,
              Error(116, <<"Could not subscribe ", "%s", " to node ", "%s",
                      ": ", "%s">>,
                    <<BoundJid, node, ErrorFormat(resp)>>))

unsubscribe ==
    \/ /\ pc = "unsubscribe"
       /\ Submit(Req("unsubscribe"))
    \/ Resume("unsubscribe",
              <<Info(121, <<"Unsubscribed ", "%s", " from node ", "%s">>,
                     <<BoundJid, node>>)>>,
              Error(123, <<"Could not unsubscribe ", "%s", " from node ", "%s",
                      ": ", "%s">>,
                    <<BoundJid, node, ErrorFormat(resp)>>))

get_affiliation ==
    \/ /\ pc = "get_affiliation"
       /\ Submit(Req("get_affiliations"))
    \/ Resume("get_affiliation",
              <<Info(129, FString(<<"Affiliations for ">>,
                             <<BoundJid, node, Str(<<"affiliation">>)>>),
                     <<BoundJid, node, Str(<<"affiliation">>)>>)>>,
              Error(131, <<"Could not get affiliations">>,
                    <<BoundJid, node, ErrorFormat(resp)>>))

\* The data taken as one identity, without the split.
Affiliations_not_split(s) == <<[jid |-> s, role |-> "owner"]>>

\* [(new_owner, "owner") for new_owner in self.data.split(",")]
Affiliations(s) ==
    [i \in 1..Len(split(s)) |-> [jid |-> split(s)[i], role |-> "owner"]]

add_owner ==
    \/ /\ pc = "add_owner"
       /\ IF data.isNone
          THEN Raise("AttributeError")
          ELSE Submit([Req("modify_affiliations") EXCEPT
                          !.affiliations = Affiliations(data.s)])
    \/ Resume("add_owner",
              <<Info(138, FString(<<"Affiliations for ">>,
                             <<BoundJid, node, Str(<<"iq">>)>>),
                     <<BoundJid, node, Str(<<"iq">>)>>)>>,
              Error(140, <<"Could not get affiliations">>,
                    <<BoundJid, node, ErrorFormat(resp)>>))

\* ------------------------------------------------------- the specification

Next ==
    \/ parse_args
    \/ PubsubClient_init
    \/ certs
    \/ connect
    \/ session_start
    \/ connection_failed
    \/ reply
    \/ session_end
    \/ start
    \/ nodes
    \/ create
    \/ delete
    \/ get_configure
    \/ publish
    \/ get
    \/ retract
    \/ purge
    \/ subscribe
    \/ unsubscribe
    \/ get_affiliation
    \/ add_owner

Spec == Init /\ [][Next]_vars

\* ------------------------------------------------------ views of a run

\* The positions in calls of the calls of one kind.
CallsOf(op) == {i \in 1..Len(calls) : calls[i].op = op}

\* The pub/sub requests the handlers submit.
PubsubRequests == {i \in 1..Len(calls) : calls[i].op \notin LifecycleOps}

\* The session_start event has fired.
SessionEstablished == pc = "start" \/ CallsOf("get_roster") # {}

\* The start coroutine is over: it returned after disconnect, or an
\* exception left it.
StartEnded == pc \in {"closing", "start_raised"} \/ (pc = "done" /\ SessionEstablished)

\* The client exists and was given this action name.
Constructed == pc \notin {"parse_args", "construct", "exit"} \/ actions # <<>>

\* The awaited handler call of line 42 is over.
DispatchEnded == outcome # "none"

\* ------------------------------------------------------------------ claims

\* C1: in every run in which the session is established, for each of the 12
\* actions, disconnect is invoked exactly once, and only after the
\* dispatched handler has finished (returned, faulted or raised): never
\* twice, never while the handler runs, and once start is over it has been
\* invoked.
C1_DisconnectExactlyOnce ==
    (SessionEstablished /\ action \in HandlerNames) =>
        /\ Cardinality(CallsOf("disconnect")) <= 1
        /\ CallsOf("disconnect") # {} => DispatchEnded
        /\ StartEnded => Cardinality(CallsOf("disconnect")) = 1

\* C2: once the session is established, whichever step of the lifecycle
\* sequence (roster fetch, presence, dispatch) fails, disconnect has been
\* invoked by the time start is over.
C2_DisconnectOnEveryExit ==
    StartEnded => CallsOf("disconnect") # {}

\* C3: the lifecycle calls are ordered: the roster is fetched only in an
\* established session; presence is sent only after the roster request was
\* answered; a pub/sub request is submitted only after the roster was
\* answered and presence was sent; disconnect comes only after the action is
\* over, with no request of it left unanswered.
C3_LifecycleOrder ==
    /\ CallsOf("get_roster") # {} =>
          /\ conn \notin {"disconnected", "connecting"}
          /\ \E c \in CallsOf("connect") : \A r \in CallsOf("get_roster") : c < r
    /\ \A p \in CallsOf("send_presence") :
          \E r \in CallsOf("get_roster") : r < p /\ r \notin inflight
    /\ \A q \in PubsubRequests :
          \E r \in CallsOf("get_roster"), p \in CallsOf("send_presence") :
              r < p /\ p < q /\ r \notin inflight
    /\ \A d \in CallsOf("disconnect") :
          /\ \A q \in PubsubRequests : q < d /\ q \notin inflight
          /\ action \in HandlerNames => DispatchEnded
          /\ \E p \in CallsOf("send_presence") : p < d

\* A run in which all five lifecycle stages happened, in order.
C3_Witness ==
    /\ pc = "done"
    /\ action = "create"
    /\ \E c \in CallsOf("connect"), r \in CallsOf("get_roster"),
          p \in CallsOf("send_presence"), q \in PubsubRequests,
          d \in CallsOf("disconnect") :
          c < r /\ r < p /\ p < q /\ q < d

\* C4: a client constructed with an action name outside the fixed set makes
\* no call on the transport at all (no connect, roster fetch, presence or
\* pub/sub request) and no method of the client is called as its handler.
C4_InvalidActionRejected ==
    (Constructed /\ args.action \notin Range(choices)) =>
        /\ calls = <<>>
        /\ outcome = "none"

\* The failure lines the handlers (source lines 47-140) wrote.
HandlerFailureLines ==
    {i \in 1..Len(log) :
        log[i].lineno \in 47..140 /\ log[i].level = "ERROR"}

\* A written line shows the value v.
Shows(line, v) == line.ok /\ v \in Range(line.args)

\* C5: when the request of any of the 12 handlers is answered by a fault,
\* the handler returns without raising and has written exactly one failure
\* line, which shows the node, the item id for the item-addressed actions
\* (get, retract), and the fault's condition/text.
C5_FaultLoggedOnce ==
    (action \in HandlerNames /\ DispatchEnded /\ resp.kind = "error") =>
        /\ outcome = "returned"
        /\ Cardinality(HandlerFailureLines) = 1
        /\ \A i \in HandlerFailureLines :
              /\ Shows(log[i], node)
              /\ action \in {"get", "retract"} => Shows(log[i], data)
              /\ Shows(log[i], ErrorFormat(resp))

\* C6: no handler raises past its own boundary, whatever the node, the data
\* and the answer.
C6_NoHandlerRaises ==
    action \in HandlerNames => outcome # "raised"

\* C7: with the node absent, every handler but nodes submits no pub/sub
\* request and, once it is over, has returned having logged the validation
\* error.
C7_NodeRequired ==
    (action \in HandlerNames \ {"nodes"} /\ node.isNone) =>
        /\ PubsubRequests = {}
        /\ DispatchEnded =>
              outcome = "returned" /\ HandlerFailureLines # {}

\* C8: add_owner with empty or missing data returns normally having
\* submitted a modify-affiliations request with zero affiliation entries.
C8_EmptyOwnerBatch ==
    (action = "add_owner" /\ ~Truthy(data) /\ DispatchEnded) =>
        /\ outcome = "returned"
        /\ \E q \in PubsubRequests :
              /\ calls[q].op = "modify_affiliations"
              /\ calls[q].affiliations = <<>>

NumSeparators(s) == Cardinality({i \in 1..Len(s) : s[i] = ","})

\* s is n >= 1 identities (none empty) with a separator between neighbours.
IsIdentityList(s) ==
    /\ Len(s) > 0
    /\ s[1] # ","
    /\ s[Len(s)] # ","
    /\ \A i \in 1..(Len(s) - 1) : ~(s[i] = "," /\ s[i + 1] = ",")

RECURSIVE JoinSeparated(_)
JoinSeparated(q) ==
    IF Len(q) = 0 THEN <<>>
    ELSE IF Len(q) = 1 THEN q[1]
    ELSE q[1] \o <<",">> \o JoinSeparated(Tail(q))

\* C9: add_owner with data made of n separated identities submits exactly
\* one request, a modify-affiliations batch to the configured server and
\* node with exactly n entries, each with role owner, whose identities are
\* those of the data in the same order.
C9_OwnerBatch ==
    (action = "add_owner" /\ ~args.data.isNone /\ IsIdentityList(args.data.s)) =>
        /\ Cardinality(PubsubRequests) <= 1
        /\ DispatchEnded =>
              outcome = "returned" /\ Cardinality(PubsubRequests) = 1
        /\ \A q \in PubsubRequests :
              LET aff == calls[q].affiliations IN
              /\ calls[q].op = "modify_affiliations"
              /\ calls[q].jid = args.server
              /\ calls[q].node = args.node
              /\ Len(aff) = NumSeparators(args.data.s) + 1
              /\ \A k \in 1..Len(aff) :
                    /\ aff[k].role = "owner"
                    /\ Len(aff[k].jid) > 0
                    /\ "," \notin Range(aff[k].jid)
              /\ JoinSeparated([k \in 1..Len(aff) |-> aff[k].jid])
                    = args.data.s

\* add_owner ran to its end with the two identities a and <t>.
C9_Witness ==
    /\ pc = "done"
    /\ action = "add_owner"
    /\ data = Str(<<"a", ",", "<t>">>)
    /\ \E q \in PubsubRequests :
          calls[q].affiliations =
              <<[jid |-> <<"a">>, role |-> "owner"],
                [jid |-> <<"<t>">>, role |-> "owner"]>>

\* The nesting depth after the first i tokens of s.
Depth(s, i) ==
    Cardinality({j \in 1..i : s[j] = "<t>"})
        - Cardinality({j \in 1..i : s[j] = "</t>"})

\* s is one XML document: a single root element, its tags balanced.
WellFormed(s) ==
    /\ Len(s) >= 2
    /\ s[1] = "<t>"
    /\ s[Len(s)] = "</t>"
    /\ \A i \in 1..(Len(s) - 1) : Depth(s, i) >= 1
    /\ Depth(s, Len(s)) = 0

RECURSIVE DocTokens(_)
\* The tokens of a document, as sent.
DocTokens(e) ==
    IF e.kind = "text" THEN <<e.v>>
    ELSE LET F[n \in 0..Len(e.kids)] ==
                 IF n = 0 THEN <<>> ELSE F[n - 1] \o DocTokens(e.kids[n])
         IN  <<"<t>">> \o F[Len(e.kids)] \o <<"</t>">>

PlaceholderDoc == Elem("{test}test", <<Text("hello world")>>)

\* C10: every request publish submits goes to the configured server and
\* node; its payload is the placeholder document when data is empty or
\* missing, and otherwise the document the (well-formed) data spells; and in
\* both of these cases publish does submit its request.
C10_PublishPayload ==
    action = "publish" =>
        /\ \A q \in PubsubRequests :
              /\ calls[q].op = "publish"
              /\ calls[q].jid = args.server
              /\ calls[q].node = args.node
              /\ ~Truthy(args.data) => calls[q].payload = PlaceholderDoc
              /\ Truthy(args.data) =>
                    /\ WellFormed(args.data.s)
                    /\ DocTokens(calls[q].payload) = args.data.s
        /\ (DispatchEnded /\ (~Truthy(args.data) \/ WellFormed(args.data.s))) =>
              outcome = "returned" /\ PubsubRequests # {}

\* publish ran to its end with a nested document as data.
C10_Witness ==
    /\ pc = "done"
    /\ action = "publish"
    /\ data = Str(<<"<t>", "<t>", "</t>", "</t>">>)
    /\ \E q \in PubsubRequests :
          calls[q].payload = Elem("t", <<Elem("t", <<>>)>>)

\* C11: at most one request is in flight at any time: no two requests are
\* outstanding together, the roster request has been answered when the
\* action's request is submitted, and no request is unanswered once
\* disconnect has been invoked.
C11_OneInFlight ==
    /\ Cardinality(inflight) <= 1
    /\ PubsubRequests # {} =>
          /\ CallsOf("get_roster") # {}
          /\ CallsOf("get_roster") \cap inflight = {}
    /\ CallsOf("disconnect") # {} => inflight = {}

\* The action's request is in flight, alone, after the roster was answered.
C11_Witness ==
    /\ pc = "await"
    /\ \E q \in PubsubRequests : inflight = {q}
    /\ \E r \in CallsOf("get_roster") : r \notin inflight

\* C12: each run that gets as far as the dispatch (roster answered, presence
\* sent) dispatches its action once, and the dispatched handler submits
\* exactly one pub/sub request: once start is over the dispatch has ended
\* and one request, no more and no less, was submitted.
C12_ExactlyOneRequest ==
    (action \in HandlerNames /\ StartEnded /\ CallsOf("send_presence") # {}) =>
        /\ DispatchEnded
        /\ Cardinality(PubsubRequests) = 1

\* The lines the catch-all of start (source line 44) wrote.
CatchAllLines == {i \in 1..Len(log) : log[i].lineno = 44}

\* C13: when a handler raises, start catches the exception (it never leaves
\* start), logs it exactly once, with the action's name and the exception,
\* and after that invokes disconnect, once.
C13_HandlerExceptionCaught ==
    (action \in HandlerNames /\ outcome = "raised") =>
        /\ pc \in {"except", "disconnect", "closing", "done"}
        /\ Cardinality(CatchAllLines) <= 1
        /\ pc # "except" =>
              /\ Cardinality(CatchAllLines) = 1
              /\ \A i \in CatchAllLines :
                    /\ log[i].level = "ERROR"
                    /\ log[i].exc_info = exc
                    /\ Shows(log[i], Str(<<action>>))
        /\ pc \in {"except", "disconnect"} => CallsOf("disconnect") = {}
        /\ pc \in {"closing", "done"} =>
              Cardinality(CallsOf("disconnect")) = 1

\* publish raised ParseError, which was logged, and the client disconnected.
C13_Witness ==
    /\ pc = "done"
    /\ action = "publish"
    /\ outcome = "raised"
    /\ exc = "ParseError"
    /\ Cardinality(CatchAllLines) = 1
    /\ CallsOf("disconnect") # {}

\* The place of a connection state in the session's life.
ConnRank(c) ==
    CASE c = "disconnected" -> 0
      [] c = "connecting" -> 1
      [] c = "authenticated" -> 2
      [] c = "active" -> 3
      [] c = "closing" -> 4
      [] c = "closed" -> 5

\* C14: every step leaves the connection state where it is or moves it
\* forward; once disconnect has been invoked the only call still made is
\* disconnect (no roster, presence or action request); the action is not
\* dispatched a second time; connect is called at most once; a run that is
\* over after connecting is closed and stays over.
C14_ForwardOnly ==
    [][/\ ConnRank(conn') >= ConnRank(conn)
       /\ CallsOf("disconnect") # {} =>
             \/ calls' = calls
             \/ /\ Len(calls') = Len(calls) + 1
                /\ calls'[Len(calls')].op = "disconnect"
       /\ (CallsOf("send_presence") # {} /\ pc # "dispatch") =>
             pc' # "dispatch"
       /\ Cardinality({i \in 1..Len(calls') : calls'[i].op = "connect"}) <= 1
       /\ pc' = "done" => conn' = "closed"
       /\ pc = "done" => pc' = "done"
      ]_vars

\* A session that went through every state and is closed.
C14_Witness ==
    /\ pc = "done"
    /\ conn = "closed"
    /\ action = "purge"
    /\ PubsubRequests # {}
    /\ CallsOf("disconnect") # {}
    /\ inflight = {}

\* A line written by one of the handlers (source lines 47-140).
IsHandlerLine(line) == line.lineno \in 47..140

\* The lines the dispatched handler wrote, in order.
HandlerLines == SelectSeq(log, IsHandlerLine)

\* C15: nodes with no node submits one disco-items request, addressed to
\* the server with no node (the root); on success it has logged exactly one
\* line per returned item, showing that item, in the order received (no
\* line for no item).
C15_NodesListed ==
    (action = "nodes" /\ args.node.isNone) =>
        /\ Cardinality(PubsubRequests) <= 1
        /\ \A q \in PubsubRequests :
              /\ calls[q].op = "get_nodes"
              /\ calls[q].jid = args.server
              /\ calls[q].node = None
        /\ DispatchEnded =>
              /\ outcome = "returned"
              /\ Cardinality(PubsubRequests) = 1
        /\ (DispatchEnded /\ resp.kind = "result") =>
              /\ Len(HandlerLines) = Len(resp.items)
              /\ \A i \in 1..Len(resp.items) :
                    /\ HandlerLines[i].level = "INFO"
                    /\ HandlerLines[i].ok
                    /\ HandlerLines[i].args = <<Str(<<resp.items[i]>>)>>

\* The root listing returned i2 then i1, logged in that order.
C15_Witness ==
    /\ pc = "done"
    /\ action = "nodes"
    /\ node = None
    /\ resp.kind = "result"
    /\ resp.items = <<"i2", "i1">>
    /\ Len(HandlerLines) = 2
    /\ HandlerLines[1].args = <<Str(<<"i2">>)>>
    /\ HandlerLines[2].args = <<Str(<<"i1">>)>>

\* C16: get submits one get-item request to the configured server and node
\* whose item id is the data as given, empty or absent data included; on
\* success it has logged exactly one line per returned item, showing the
\* item's id and payload.
C16_GetPassesData ==
    action = "get" =>
        /\ Cardinality(PubsubRequests) <= 1
        /\ \A q \in PubsubRequests :
              /\ calls[q].op = "get_item"
              /\ calls[q].jid = args.server
              /\ calls[q].node = args.node
              /\ calls[q].item = args.data
        /\ DispatchEnded =>
              /\ outcome = "returned"
              /\ Cardinality(PubsubRequests) = 1
        /\ (DispatchEnded /\ resp.kind = "result") =>
              /\ Len(HandlerLines) = Len(resp.items)
              /\ \A i \in 1..Len(resp.items) :
                    /\ HandlerLines[i].level = "INFO"
                    /\ HandlerLines[i].ok
                    /\ HandlerLines[i].args =
                          <<Str(<<resp.items[i]>>),
                            Str(<<"payload of", resp.items[i]>>)>>

\* get ran with the empty string as data and was answered with one item.
C16_Witness ==
    /\ pc = "done"
    /\ action = "get"
    /\ node = Str(<<"n1">>)
    /\ data = Str(<<>>)
    /\ \E q \in PubsubRequests : calls[q].item = Str(<<>>)
    /\ resp.kind = "result"
    /\ Len(resp.items) = 1
    /\ Len(HandlerLines) = 1

\* The lines of one level written on one source line.
LinesAt(lineno, level) ==
    {i \in 1..Len(log) : log[i].lineno = lineno /\ log[i].level = level}

\* C17: once the script has made its certificate checks: without the
\* directory or without the CA bundle the process has exited and connect is
\* never invoked; with both, the process goes on to connect (it has been
\* invoked as soon as the script is past that line), and a missing client
\* certificate or client key has been logged as an error.
C17_CertificateChecks ==
    (is_main /\ fs.checked) =>
        /\ (~fs.dir \/ ~fs.ca) =>
              /\ pc = "exit"
              /\ CallsOf("connect") = {}
              /\ calls = <<>>
        /\ (fs.dir /\ fs.ca) =>
              /\ pc # "exit"
              /\ pc # "connect" => Cardinality(CallsOf("connect")) = 1
              /\ ~fs.cert => Cardinality(LinesAt(203, "ERROR")) = 1
              /\ ~fs.key => Cardinality(LinesAt(205, "ERROR")) = 1

\* Client certificate and key are both missing; connect was invoked.
C17_Witness ==
    /\ is_main
    /\ fs.checked /\ fs.dir /\ fs.ca /\ ~fs.cert /\ ~fs.key
    /\ LinesAt(203, "ERROR") # {}
    /\ LinesAt(205, "ERROR") # {}
    /\ CallsOf("connect") # {}
    /\ pc = "process"

\* The success lines the handlers (source lines 47-140) wrote.
HandlerSuccessLines ==
    {i \in 1..Len(log) :
        log[i].lineno \in 47..140 /\ log[i].level = "INFO"}

\* C18: in a handler run, a faulted request leaves no success line (no
\* per-item line either) and an answered one leaves no failure line.
C18_SuccessXorFailure ==
    (action \in HandlerNames /\ DispatchEnded) =>
        /\ resp.kind = "error" => HandlerSuccessLines = {}
        /\ resp.kind = "result" => HandlerFailureLines = {}
        /\ HandlerSuccessLines = {} \/ HandlerFailureLines = {}

\* get was answered by a fault and logged its failure line, no item line.
C18_Witness ==
    /\ pc = "done"
    /\ action = "get"
    /\ resp.kind = "error"
    /\ Cardinality(HandlerFailureLines) = 1
    /\ HandlerSuccessLines = {}

\* C19: the parser's choices and the client's action list are the same 12
\* names, each the name of a handler the client defines; a client built by
\* the script therefore holds an action of its list that resolves to a
\* handler at dispatch, and the catch-all is reached only by an exception
\* the handler itself raised, never by a missing handler.
C19_ChoicesAreHandlers ==
    /\ Len(choices) = 12
    /\ Cardinality(Range(choices)) = 12
    /\ \A n \in Range(choices) : Resolve(n) = "handler"
    /\ actions # <<>> =>
          /\ Len(actions) = 12
          /\ Range(actions) = Range(choices)
    /\ (is_main /\ Constructed) =>
          /\ action \in Range(actions)
          /\ Resolve(action) = "handler"
    /\ (is_main /\ outcome = "raised") =>
          \/ action = "publish" /\ exc = "ParseError"
          \/ action = "add_owner" /\ data.isNone /\ exc = "AttributeError"

\* The script ran get_affiliation, one of the two appended names, to its end.
C19_Witness ==
    /\ is_main
    /\ action = "get_affiliation"
    /\ "get_affiliation" \in Range(actions)
    /\ outcome = "returned"
    /\ pc = "done"

====
